---- MODULE Spec2Model ----
(***************************************************************************)
(* Model of src/main.cpp: the token classes, readToken,                    *)
(* shuntingYardAlgorithm, evaluateExpressionTokens and the part of main    *)
(* that chains them.                                                       *)
(*                                                                         *)
(* Tokens live in an arena (the heap objects behind the shared_ptr         *)
(* handles); the queue and the stacks hold indices into it, so a write     *)
(* through one handle is seen through every other handle of the object.    *)
(* A std::string is a sequence of one-character strings. Stacks are        *)
(* sequences whose last element is the top.                                *)
(***************************************************************************)
EXTENDS Integers, Sequences, FiniteSets, TLC

VARIABLES
    tokens,           \* arena: token index -> token object (TOKENS' pointees)
    inputQueue,       \* shuntingYardAlgorithm's inputQueue (TOKENS itself)
    outputStack,      \* shuntingYardAlgorithm's outputStack
    operatorStack,    \* shuntingYardAlgorithm's operatorStack
    previousToken,    \* shuntingYardAlgorithm's previousToken, Null = nullptr
    token,            \* the token of the running loop iteration, Null = none
    mismatch,         \* "Mismatched parenthesis error!" has been printed
    expressionStack,  \* main's expressionStack, the evaluator's argument
    callStack,        \* the activation records of evaluateExpressionTokens
    retval,           \* the value the last finished activation returned
    evalError,        \* "Error evaluating token" has been printed
    result,           \* main's expressionResult
    ub,               \* the run has executed undefined behaviour
    expr,             \* the expression the token list was lexed from (ghost)
    pc                \* the control point

vars == <<tokens, inputQueue, outputStack, operatorStack, previousToken, token,
          mismatch, expressionStack, callStack, retval, evalError, result, ub,
          expr, pc>>

(***************************************************************************)
(* Bounds of the model.                                                    *)
(***************************************************************************)
\* longest token list drawn for the runs on arbitrary input
MaxLen == 3
\* the number literals of the source's token lists are drawn from
\* -1..MaxOperand
MaxOperand == 6
\* the number literals of a generated expression are drawn from 0..MaxLeaf
MaxLeaf == 2
\* most operator and parenthesis nodes of a generated expression
MaxOps == 2
\* deepest stack drawn for the runs of the evaluator on arbitrary stacks
MaxStack == 4
\* deepest well-formed postfix stack drawn for the runs of the evaluator
MaxPostfix == 5

Null == 0

(***************************************************************************)
(* Strings.                                                                *)
(***************************************************************************)
Str(c) == <<c>>

DigitChars == <<"0", "1", "2", "3", "4", "5", "6", "7", "8", "9">>

IsDigit(c) == \E d \in 1..10 : DigitChars[d] = c

DigitVal(c) == (CHOOSE d \in 1..10 : DigitChars[d] = c) - 1

\* the decimal literal of a natural number, as the token list spells it
RECURSIVE DecimalText(_)
DecimalText(n) ==
    IF n < 10 THEN <<DigitChars[n + 1]>>
    ELSE Append(DecimalText(n \div 10), DigitChars[(n % 10) + 1])

\* the literal of an integer: a '-' in front of a negative one
Literal(n) == IF n < 0 THEN <<"-">> \o DecimalText(-n) ELSE DecimalText(n)

RECURSIVE SkipSpaces(_, _)
SkipSpaces(s, i) ==
    IF i <= Len(s) /\ s[i] = " " THEN SkipSpaces(s, i + 1) ELSE i

RECURSIVE AtollDigits(_, _, _)
AtollDigits(s, i, acc) ==
    IF i <= Len(s) /\ IsDigit(s[i])
    THEN AtollDigits(s, i + 1, acc * 10 + DigitVal(s[i]))
    ELSE acc

\* std::atoll: leading blanks, an optional sign, then digits up to the first
\* character that is no digit; 0 when there is no digit
Atoll(s) ==
    LET i == SkipSpaces(s, 1)
        signed == i <= Len(s) /\ s[i] \in {"+", "-"}
        j == IF signed THEN i + 1 ELSE i
        magnitude == AtollDigits(s, j, 0)
    IN  IF signed /\ s[i] = "-" THEN -magnitude ELSE magnitude

(***************************************************************************)
(* Token classes. The operator fields exist only in an OperatorToken; the  *)
(* other classes carry fixed fillers that nothing reads.                   *)
(***************************************************************************)
NumberToken(value) ==
    [type |-> "Number", d_value |-> value,
     d_precedence |-> 0, d_leftAssociative |-> FALSE, d_unary |-> FALSE]

OperatorToken(value, precedence, leftAssociative, unary) ==
    [type |-> "Operator", d_value |-> value,
     d_precedence |-> precedence, d_leftAssociative |-> leftAssociative,
     d_unary |-> unary]

SymbolToken(value) ==
    [type |-> "Symbol", d_value |-> value,
     d_precedence |-> 0, d_leftAssociative |-> FALSE, d_unary |-> FALSE]

getIntValue(t) == Atoll(t.d_value)

Top(stack) == stack[Len(stack)]

\* Pop that leaves the top in place
PopKeepsTop(stack) == stack

Pop(stack) == SubSeq(stack, 1, Len(stack) - 1)

\* Push that puts the element under the stack
PushUnder(stack, x) == <<x>> \o stack

Push(stack, x) == Append(stack, x)

(***************************************************************************)
(* shuntingYardAlgorithm                                                   *)
(***************************************************************************)
\* TagUnary without the test of the previous token
TagUnaryAlways(t, prev) ==
    IF t.d_value \in {Str("+"), Str("-")}
    THEN [t EXCEPT !.d_unary = TRUE, !.d_leftAssociative = FALSE]
    ELSE t

\* TagUnary without the test of the operator's text
TagUnaryAnyText(t, prev) ==
    IF \/ prev = Null
       \/ tokens[prev].type = "Operator"
       \/ tokens[prev].type = "Symbol"
    THEN [t EXCEPT !.d_unary = TRUE, !.d_leftAssociative = FALSE]
    ELSE t

\* TagUnary that flips leftAssociative instead of clearing it
TagUnaryFlips(t, prev) ==
    IF /\ t.d_value \in {Str("+"), Str("-")}
       /\ \/ prev = Null
          \/ tokens[prev].type = "Operator"
          \/ tokens[prev].type = "Symbol"
    THEN [t EXCEPT !.d_unary = TRUE, !.d_leftAssociative = ~t.d_leftAssociative]
    ELSE t

\* TagUnary that sets unary and forgets leftAssociative
TagUnaryKeepsAssociativity(t, prev) ==
    IF /\ t.d_value \in {Str("+"), Str("-")}
       /\ \/ prev = Null
          \/ tokens[prev].type = "Operator"
          \/ tokens[prev].type = "Symbol"
    THEN [t EXCEPT !.d_unary = TRUE]
    ELSE t

\* TagUnary without the test for a previous token of kind Symbol
TagUnaryNotAfterSymbol(t, prev) ==
    IF /\ t.d_value \in {Str("+"), Str("-")}
       /\ \/ prev = Null
          \/ tokens[prev].type = "Operator"
    THEN [t EXCEPT !.d_unary = TRUE, !.d_leftAssociative = FALSE]
    ELSE t

\* lines 165-170: the token a '+' or '-' operator becomes, given the token
\* consumed before it (Null when there is none)
TagUnary(t, prev) ==
    IF /\ t.d_value \in {Str("+"), Str("-")}
       /\ \/ prev = Null
          \/ tokens[prev].type = "Operator"
          \/ tokens[prev].type = "Symbol"
    THEN [t EXCEPT !.d_unary = TRUE, !.d_leftAssociative = FALSE]
    ELSE t

\* PopsTop with the precedence comparison turned around
PopsTopReversed(topOperator, currentOperator) ==
    /\ ~(topOperator.d_precedence > currentOperator.d_precedence)
    /\ ~(/\ topOperator.d_precedence = currentOperator.d_precedence
         /\ ~currentOperator.d_leftAssociative)

\* lines 179-182: neither break is taken, so the stack top goes to the output
PopsTop(topOperator, currentOperator) ==
    /\ ~(topOperator.d_precedence < currentOperator.d_precedence)
    /\ ~(/\ topOperator.d_precedence = currentOperator.d_precedence
         /\ ~currentOperator.d_leftAssociative)

\* ReadToken taking every token but a Number and the parentheses for an
\* operator
ReadTokenNoKindTest ==
    /\ pc = "loop"
    /\ IF inputQueue = <<>>
       THEN /\ pc' = "drain"
            /\ UNCHANGED <<tokens, inputQueue, outputStack, operatorStack,
                           previousToken, token>>
       ELSE LET t == Head(inputQueue) IN
            /\ inputQueue' = Tail(inputQueue)
            /\ IF tokens[t].type = "Number"
               THEN /\ outputStack' = Push(outputStack, t)
                    /\ previousToken' = t
                    /\ token' = Null
                    /\ pc' = "loop"
                    /\ UNCHANGED <<tokens, operatorStack>>
               ELSE IF tokens[t].d_value = Str("(")
               THEN /\ operatorStack' = Push(operatorStack, t)
                    /\ previousToken' = t
                    /\ token' = Null
                    /\ pc' = "loop"
                    /\ UNCHANGED <<tokens, outputStack>>
               ELSE IF tokens[t].d_value # Str(")")
               THEN /\ tokens' = [tokens EXCEPT ![t] = TagUnary(tokens[t], previousToken)]
                    /\ token' = t
                    /\ pc' = "oploop"
                    /\ UNCHANGED <<outputStack, operatorStack, previousToken>>
               ELSE IF tokens[t].d_value = Str(")")
               THEN /\ token' = t
                    /\ pc' = "rparen"
                    /\ UNCHANGED <<tokens, outputStack, operatorStack, previousToken>>
               ELSE /\ previousToken' = t
                    /\ token' = Null
                    /\ pc' = "loop"
                    /\ UNCHANGED <<tokens, outputStack, operatorStack>>
    /\ UNCHANGED <<mismatch, expressionStack, callStack, retval, evalError,
                   result, ub, expr>>

\* lines 150-170, 193, 212: the loop test, readToken and the dispatch on the
\* token; the two inner loops run as OperatorLoop and RightParenLoop
ReadToken ==
    /\ pc = "loop"
    /\ IF inputQueue = <<>>
       THEN /\ pc' = "drain"
            /\ UNCHANGED <<tokens, inputQueue, outputStack, operatorStack,
                           previousToken, token>>
       ELSE LET t == Head(inputQueue) IN
            /\ inputQueue' = Tail(inputQueue)
            /\ IF tokens[t].type = "Number"
               THEN /\ outputStack' = Push(outputStack, t)
                    /\ previousToken' = t
                    /\ token' = Null
                    /\ pc' = "loop"
                    /\ UNCHANGED <<tokens, operatorStack>>
               ELSE IF tokens[t].d_value = Str("(")
               THEN /\ operatorStack' = Push(operatorStack, t)
                    /\ previousToken' = t
                    /\ token' = Null
                    /\ pc' = "loop"
                    /\ UNCHANGED <<tokens, outputStack>>
               ELSE IF tokens[t].type = "Operator"
               THEN /\ tokens' = [tokens EXCEPT ![t] = TagUnary(tokens[t], previousToken)]
                    /\ token' = t
                    /\ pc' = "oploop"
                    /\ UNCHANGED <<outputStack, operatorStack, previousToken>>
               ELSE IF tokens[t].d_value = Str(")")
               THEN /\ token' = t
                    /\ pc' = "rparen"
                    /\ UNCHANGED <<tokens, outputStack, operatorStack, previousToken>>
               ELSE /\ previousToken' = t
                    /\ token' = Null
                    /\ pc' = "loop"
                    /\ UNCHANGED <<tokens, outputStack, operatorStack>>
    /\ UNCHANGED <<mismatch, expressionStack, callStack, retval, evalError,
                   result, ub, expr>>

\* lines 172-189 and 212: one turn of the pop-before-push loop, or its exit
\* and the push of the current operator
OperatorLoop ==
    /\ pc = "oploop"
    /\ IF /\ operatorStack # <<>>
          /\ tokens[Top(operatorStack)].d_value # Str("(")
          /\ PopsTop(tokens[Top(operatorStack)], tokens[token])
       THEN /\ outputStack' = Push(outputStack, Top(operatorStack))
            /\ operatorStack' = Pop(operatorStack)
            /\ UNCHANGED <<previousToken, token, pc>>
       ELSE /\ operatorStack' = Push(operatorStack, token)
            /\ previousToken' = token
            /\ token' = Null
            /\ pc' = "loop"
            /\ UNCHANGED outputStack
    /\ UNCHANGED <<tokens, inputQueue, mismatch, expressionStack, callStack,
                   retval, evalError, result, ub, expr>>

\* RightParenLoop going on with the next token after the mismatch message
RightParenLoopContinues ==
    /\ pc = "rparen"
    /\ IF /\ operatorStack # <<>>
          /\ tokens[Top(operatorStack)].d_value # Str("(")
       THEN /\ outputStack' = Push(outputStack, Top(operatorStack))
            /\ operatorStack' = Pop(operatorStack)
            /\ UNCHANGED <<previousToken, token, mismatch, pc>>
       ELSE IF operatorStack = <<>> \/ tokens[Top(operatorStack)].d_value # Str("(")
       THEN /\ mismatch' = TRUE
            /\ previousToken' = token
            /\ token' = Null
            /\ pc' = "loop"
            /\ UNCHANGED <<outputStack, operatorStack>>
       ELSE /\ operatorStack' = Pop(operatorStack)
            /\ previousToken' = token
            /\ token' = Null
            /\ pc' = "loop"
            /\ UNCHANGED <<outputStack, mismatch>>
    /\ UNCHANGED <<tokens, inputQueue, expressionStack, callStack, retval,
                   evalError, result, ub, expr>>

\* lines 194-209 and 212: one turn of the loop that unwinds to the '(' , or
\* its exit: the mismatch check and the pop of the '('
RightParenLoop ==
    /\ pc = "rparen"
    /\ IF /\ operatorStack # <<>>
          /\ tokens[Top(operatorStack)].d_value # Str("(")
       THEN /\ outputStack' = Push(outputStack, Top(operatorStack))
            /\ operatorStack' = Pop(operatorStack)
            /\ UNCHANGED <<previousToken, token, mismatch, pc>>
       ELSE IF operatorStack = <<>> \/ tokens[Top(operatorStack)].d_value # Str("(")
       THEN /\ mismatch' = TRUE
            /\ token' = Null
            /\ pc' = "drain"
            /\ UNCHANGED <<outputStack, operatorStack, previousToken>>
       ELSE /\ operatorStack' = Pop(operatorStack)
            /\ previousToken' = token
            /\ token' = Null
            /\ pc' = "loop"
            /\ UNCHANGED <<outputStack, mismatch>>
    /\ UNCHANGED <<tokens, inputQueue, expressionStack, callStack, retval,
                   evalError, result, ub, expr>>

\* Drain leaving the operator stack as it is once a '(' is on top
DrainStopsAtParen ==
    /\ pc = "drain"
    /\ IF operatorStack # <<>> /\ tokens[Top(operatorStack)].d_value # Str("(")
       THEN /\ outputStack' = Push(outputStack, Top(operatorStack))
            /\ operatorStack' = Pop(operatorStack)
            /\ UNCHANGED <<expressionStack, pc>>
       ELSE /\ expressionStack' = outputStack
            /\ pc' = "main"
            /\ UNCHANGED <<outputStack, operatorStack>>
    /\ UNCHANGED <<tokens, inputQueue, previousToken, token, mismatch,
                   callStack, retval, evalError, result, ub, expr>>

\* lines 216-221 and 274: one turn of the final drain, or the return of the
\* output stack into main's expressionStack
Drain ==
    /\ pc = "drain"
    /\ IF operatorStack # <<>>
       THEN /\ outputStack' = Push(outputStack, Top(operatorStack))
            /\ operatorStack' = Pop(operatorStack)
            /\ UNCHANGED <<expressionStack, pc>>
       ELSE /\ expressionStack' = outputStack
            /\ pc' = "main"
            /\ UNCHANGED <<outputStack, operatorStack>>
    /\ UNCHANGED <<tokens, inputQueue, previousToken, token, mismatch,
                   callStack, retval, evalError, result, ub, expr>>

(***************************************************************************)
(* evaluateExpressionTokens                                                *)
(***************************************************************************)
\* what a read of an indeterminate value may yield
Garbage == {-1, 0, 1}

\* int64_t division: the quotient truncated toward zero
TruncDiv(lhs, rhs) ==
    LET q == (IF lhs < 0 THEN -lhs ELSE lhs) \div (IF rhs < 0 THEN -rhs ELSE rhs)
    IN  IF (lhs < 0) = (rhs < 0) THEN q ELSE -q

UnaryTexts == {Str("!"), Str("+"), Str("-")}

BinaryTexts == {Str("+"), Str("-"), Str("*"), Str("/")}

\* ApplyUnary with the last test left out: any other text negates
ApplyUnaryElseNegates(value, rhs) ==
    IF value = Str("!") THEN (IF rhs = 0 THEN 1 ELSE 0)
    ELSE IF value = Str("+") THEN rhs
    ELSE -rhs

\* lines 255-256: the value returned after the diagnostic
Sentinel == 0

\* lines 234-239 and 255-256: the value of a unary operator; a text that is
\* none of the three falls through to the diagnostic
ApplyUnary(value, rhs) ==
    IF value = Str("!") THEN (IF rhs = 0 THEN 1 ELSE 0)
    ELSE IF value = Str("+") THEN rhs
    ELSE IF value = Str("-") THEN -rhs
    ELSE Sentinel

\* ApplyBinary with the two operands taken in the order they were evaluated
ApplyBinarySwapped(value, lhs, rhs) ==
    IF value = Str("+") THEN rhs + lhs
    ELSE IF value = Str("-") THEN rhs - lhs
    ELSE IF value = Str("*") THEN rhs * lhs
    ELSE IF value = Str("/") THEN TruncDiv(rhs, IF lhs = 0 THEN 1 ELSE lhs)
    ELSE Sentinel

\* lines 244-251 and 255-256: the value of a binary operator, the divisor
\* of a '/' not being 0; a text that is none of the four falls through to
\* the diagnostic
ApplyBinary(value, lhs, rhs) ==
    IF value = Str("+") THEN lhs + rhs
    ELSE IF value = Str("-") THEN lhs - rhs
    ELSE IF value = Str("*") THEN lhs * rhs
    ELSE IF value = Str("/") THEN TruncDiv(lhs, rhs)
    ELSE Sentinel

\* line 277: main calls evaluateExpressionTokens(expressionStack)
MainEvaluate ==
    /\ pc = "main"
    /\ callStack' = <<>>
    /\ pc' = "call"
    /\ UNCHANGED <<tokens, inputQueue, outputStack, operatorStack,
                   previousToken, token, mismatch, expressionStack, retval,
                   evalError, result, ub, expr>>

\* lines 225-233, 241, 255-256: entry of one activation. top() and pop() of
\* an empty std::stack are undefined: the run crashes or goes on with an
\* indeterminate value.
EvalCall ==
    /\ pc = "call"
    /\ \E crash \in BOOLEAN, g \in Garbage :
        IF expressionStack = <<>>
        THEN /\ ub' = TRUE
             /\ pc' = IF crash THEN "crashed" ELSE "return"
             /\ retval' = IF crash THEN retval ELSE g
             /\ UNCHANGED <<expressionStack, callStack, evalError>>
        ELSE LET t == Top(expressionStack) IN
             /\ expressionStack' = Pop(expressionStack)
             /\ IF tokens[t].type = "Number"
                THEN /\ retval' = getIntValue(tokens[t])
                     /\ pc' = "return"
                     /\ UNCHANGED <<callStack, evalError>>
                ELSE IF tokens[t].type = "Operator"
                THEN /\ callStack' = Push(callStack, [token |-> t, have |-> 0, rhs |-> 0])
                     /\ pc' = "call"
                     /\ UNCHANGED <<retval, evalError>>
                ELSE /\ evalError' = TRUE
                     /\ retval' = Sentinel
                     /\ pc' = "return"
                     /\ UNCHANGED callStack
             /\ UNCHANGED ub
    /\ UNCHANGED <<tokens, inputQueue, outputStack, operatorStack,
                   previousToken, token, mismatch, result, expr>>

\* lines 233-256 and 277: an activation returns. The outermost one returns
\* to main; an inner one hands its value to the operator that asked for it,
\* which asks for its second operand or computes its own value. A division
\* by 0 is undefined: the run crashes or goes on with an indeterminate value.
EvalReturn ==
    /\ pc = "return"
    /\ \E crash \in BOOLEAN, g \in Garbage :
        IF callStack = <<>>
        THEN /\ result' = retval
             /\ pc' = "done"
             /\ UNCHANGED <<callStack, retval, evalError, ub>>
        ELSE LET frame == Top(callStack)
                 t == tokens[frame.token]
             IN
             /\ result' = result
             /\ IF t.d_unary
                THEN /\ callStack' = Pop(callStack)
                     /\ retval' = ApplyUnary(t.d_value, retval)
                     /\ evalError' = (evalError \/ t.d_value \notin UnaryTexts)
                     /\ pc' = "return"
                     /\ ub' = ub
                ELSE IF frame.have = 0
                THEN /\ callStack' = [callStack EXCEPT ![Len(callStack)] =
                                        [frame EXCEPT !.have = 1, !.rhs = retval]]
                     /\ pc' = "call"
                     /\ UNCHANGED <<retval, evalError, ub>>
                ELSE IF t.d_value = Str("/") /\ frame.rhs = 0
                THEN /\ callStack' = Pop(callStack)
                     /\ ub' = TRUE
                     /\ pc' = IF crash THEN "crashed" ELSE "return"
                     /\ retval' = IF crash THEN retval ELSE g
                     /\ evalError' = evalError
                ELSE /\ callStack' = Pop(callStack)
                     /\ retval' = ApplyBinary(t.d_value, retval, frame.rhs)
                     /\ evalError' = (evalError \/ t.d_value \notin BinaryTexts)
                     /\ pc' = "return"
                     /\ ub' = ub
    /\ UNCHANGED <<tokens, inputQueue, outputStack, operatorStack,
                   previousToken, token, mismatch, expressionStack, expr>>

(***************************************************************************)
(* Inputs.                                                                 *)
(***************************************************************************)
\* the tokens an arbitrary token list is drawn from: every class, every
\* operator text the code tests for, two it does not know, three
\* precedences, both associativities, both arities
AnyTokens ==
    {NumberToken(Literal(n)) : n \in {0, 1}}
    \cup {SymbolToken(Str("(")), SymbolToken(Str(")")), SymbolToken(Str("#"))}
    \cup {OperatorToken(Str("+"), 1, TRUE, FALSE),
          OperatorToken(Str("-"), 1, TRUE, FALSE),
          OperatorToken(Str("-"), 1, FALSE, FALSE),
          OperatorToken(Str("-"), 1, FALSE, TRUE),
          OperatorToken(Str("*"), 2, TRUE, FALSE),
          OperatorToken(Str("/"), 2, TRUE, FALSE),
          OperatorToken(Str("!"), 2, TRUE, TRUE),
          OperatorToken(Str("^"), 3, FALSE, FALSE),
          OperatorToken(Str("~"), 3, FALSE, TRUE)}

TokenLists(S, n) == UNION {[1..k -> S] : k \in 0..n}

Indices(list) == [i \in 1..Len(list) |-> i]

\* the state at the call of shuntingYardAlgorithm(TOKENS) in main
Start(list, source) ==
    /\ tokens = list
    /\ inputQueue = Indices(list)
    /\ outputStack = <<>>
    /\ operatorStack = <<>>
    /\ previousToken = Null
    /\ token = Null
    /\ mismatch = FALSE
    /\ expressionStack = <<>>
    /\ callStack = <<>>
    /\ retval = 0
    /\ evalError = FALSE
    /\ result = 0
    /\ ub = FALSE
    /\ expr = source
    /\ pc = "loop"

Init == \E list \in TokenLists(AnyTokens, MaxLen) : Start(list, <<>>)

Next ==
    \/ ReadToken
    \/ OperatorLoop
    \/ RightParenLoop
    \/ Drain
    \/ MainEvaluate
    \/ EvalCall
    \/ EvalReturn

Spec == Init /\ [][Next]_vars

(***************************************************************************)
(* evaluateExpressionTokens alone, called on an arbitrary stack.           *)
(***************************************************************************)
\* the tokens an arbitrary postfix stack is drawn from: binary and unary
\* operators the evaluator knows, a binary one whose text it does not know,
\* a unary one whose text it knows only as binary, and a Symbol
EvalTokens ==
    {NumberToken(Literal(n)) : n \in {0, 1, 2}}
    \cup {SymbolToken(Str("("))}
    \cup {OperatorToken(Str("-"), 1, TRUE, FALSE),
          OperatorToken(Str("/"), 2, TRUE, FALSE),
          OperatorToken(Str("^"), 3, FALSE, FALSE),
          OperatorToken(Str("!"), 2, TRUE, TRUE),
          OperatorToken(Str("-"), 1, FALSE, TRUE),
          OperatorToken(Str("*"), 2, TRUE, TRUE)}

\* the state at a call of evaluateExpressionTokens(stack)
StartEval(list) ==
    /\ tokens = list
    /\ inputQueue = <<>>
    /\ outputStack = <<>>
    /\ operatorStack = <<>>
    /\ previousToken = Null
    /\ token = Null
    /\ mismatch = FALSE
    /\ expressionStack = Indices(list)
    /\ callStack = <<>>
    /\ retval = 0
    /\ evalError = FALSE
    /\ result = 0
    /\ ub = FALSE
    /\ expr = <<>>
    /\ pc = "call"

InitEval == \E list \in TokenLists(EvalTokens, MaxStack) : StartEval(list)

NextEval ==
    \/ EvalCall
    \/ EvalReturn

\* the number of values a left-to-right stack evaluation of the first i
\* tokens of a postfix sequence leaves, -1 once an operator lacks an operand
\* or a token is neither a Number nor an Operator
RECURSIVE ValuesLeft(_, _)
ValuesLeft(list, i) ==
    IF i = 0 THEN 0
    ELSE LET below == ValuesLeft(list, i - 1)
             t == list[i]
             arity == IF t.type = "Number" THEN 0
                      ELSE IF t.type = "Operator" /\ t.d_unary THEN 1
                      ELSE 2
         IN  IF below < arity \/ t.type = "Symbol" THEN -1
             ELSE below - arity + 1

\* a well-formed postfix sequence: each operator is preceded by as many
\* complete operand sub-sequences as its arity, and one value is left
WellFormedPostfix(list) == ValuesLeft(list, Len(list)) = 1

SpecEval == InitEval /\ [][NextEval]_vars

\* evaluateExpressionTokens called on the well-formed postfix stacks; the
\* evaluator is sequential code, so a step that can be taken is taken
InitPostfix ==
    \E list \in {l \in TokenLists(EvalTokens, MaxPostfix) : WellFormedPostfix(l)} :
        StartEval(list)

SpecPostfix == InitPostfix /\ [][NextEval]_vars /\ WF_vars(NextEval)

\* the well-formed postfix sequences of exactly n tokens over the operators
\* the evaluator knows
KnownBinary == {OperatorToken(Str(op), IF op \in {"*", "/"} THEN 2 ELSE 1, TRUE, FALSE) :
                   op \in {"+", "-", "*", "/"}}

KnownUnary == {OperatorToken(Str("!"), 2, TRUE, TRUE),
               OperatorToken(Str("+"), 1, FALSE, TRUE),
               OperatorToken(Str("-"), 1, FALSE, TRUE)}

RECURSIVE PostfixOfLen(_)
PostfixOfLen(n) ==
    IF n = 1 THEN {<<NumberToken(Literal(v))>> : v \in {0, 1, 2}}
    ELSE {Append(p, u) : p \in PostfixOfLen(n - 1), u \in KnownUnary}
         \cup UNION {{l \o r \o <<b>> : l \in PostfixOfLen(i),
                                        r \in PostfixOfLen(n - 1 - i),
                                        b \in KnownBinary} :
                     i \in 1..(n - 2)}

\* evaluateExpressionTokens called on those sequences
InitKnown ==
    \E list \in UNION {PostfixOfLen(n) : n \in 1..MaxPostfix} : StartEval(list)

SpecKnown == InitKnown /\ [][NextEval]_vars

(***************************************************************************)
(* The three token lists of the source, their number literals left open.   *)
(***************************************************************************)
Operands == -1..MaxOperand

\* lines 103-113: 4 + 2 * ( 3 - 1 )
Sample1(a, b, c, d) ==
    <<NumberToken(Literal(a)),
      OperatorToken(Str("+"), 1, TRUE, FALSE),
      NumberToken(Literal(b)),
      OperatorToken(Str("*"), 2, TRUE, FALSE),
      SymbolToken(Str("(")),
      NumberToken(Literal(c)),
      OperatorToken(Str("-"), 1, TRUE, FALSE),
      NumberToken(Literal(d)),
      SymbolToken(Str(")"))>>

\* lines 115-120: 4 - ! 1
Sample2(a, b) ==
    <<NumberToken(Literal(a)),
      OperatorToken(Str("-"), 1, FALSE, FALSE),
      OperatorToken(Str("!"), 2, TRUE, TRUE),
      NumberToken(Literal(b))>>

\* lines 123-135, the live TOKENS: - 6 + 2 * ( - 3 - 1 )
Sample3(a, b, c, d) ==
    <<OperatorToken(Str("-"), 1, FALSE, FALSE),
      NumberToken(Literal(a)),
      OperatorToken(Str("+"), 1, TRUE, FALSE),
      NumberToken(Literal(b)),
      OperatorToken(Str("*"), 2, TRUE, FALSE),
      SymbolToken(Str("(")),
      OperatorToken(Str("-"), 1, FALSE, FALSE),
      NumberToken(Literal(c)),
      OperatorToken(Str("-"), 1, TRUE, FALSE),
      NumberToken(Literal(d)),
      SymbolToken(Str(")"))>>

InitSamples ==
    \E a \in Operands, b \in Operands, c \in Operands, d \in Operands :
        \/ Start(Sample1(a, b, c, d), <<"sample1", <<a, b, c, d>>>>)
        \/ Start(Sample2(a, b), <<"sample2", <<a, b>>>>)
        \/ Start(Sample3(a, b, c, d), <<"sample3", <<a, b, c, d>>>>)

SpecSamples == InitSamples /\ [][Next]_vars

(***************************************************************************)
(* Well-formed expressions, as trees <<kind, operator, children, value>>,  *)
(* with the value each denotes and the token list a lexer makes of it.     *)
(***************************************************************************)
Leaf(n) == <<"num", "", <<>>, n>>

Un(op, t) == <<"un", op, <<t>>, 0>>

Bin(op, l, r) == <<"bin", op, <<l, r>>, 0>>

Par(t) == <<"par", "", <<t>>, 0>>

UnaryOps == {"!", "+", "-"}

BinaryOps == {"+", "-", "*", "/"}

\* the trees with exactly n operator nodes (and, when parens is set,
\* parenthesis nodes counted with them)
RECURSIVE ExprsOfSize(_, _)
ExprsOfSize(n, parens) ==
    IF n = 0 THEN {Leaf(v) : v \in 0..MaxLeaf}
    ELSE {Un(op, t) : op \in UnaryOps, t \in ExprsOfSize(n - 1, parens)}
         \cup (IF parens THEN {Par(t) : t \in ExprsOfSize(n - 1, parens)} ELSE {})
         \cup UNION {{Bin(op, l, r) : op \in BinaryOps,
                                      l \in ExprsOfSize(i, parens),
                                      r \in ExprsOfSize(n - 1 - i, parens)} :
                     i \in 0..(n - 1)}

Exprs(parens) == UNION {ExprsOfSize(n, parens) : n \in 0..MaxOps}

\* the value of an expression: a unary operator applies to the operand that
\* follows it, a binary one to the values of its two sides
RECURSIVE RefValue(_)
RefValue(t) ==
    IF t[1] = "num" THEN t[4]
    ELSE IF t[1] = "par" THEN RefValue(t[3][1])
    ELSE IF t[1] = "un"
    THEN LET x == RefValue(t[3][1]) IN
         IF t[2] = "!" THEN (IF x = 0 THEN 1 ELSE 0)
         ELSE IF t[2] = "+" THEN x
         ELSE -x
    ELSE LET x == RefValue(t[3][1])
             y == RefValue(t[3][2])
             ax == IF x < 0 THEN -x ELSE x
             ay == IF y < 0 THEN -y ELSE y
         IN
         IF t[2] = "+" THEN x + y
         ELSE IF t[2] = "-" THEN x - y
         ELSE IF t[2] = "*" THEN x * y
         ELSE IF (x < 0) = (y < 0) THEN ax \div ay ELSE -(ax \div ay)

\* no division of the expression has a divisor of value 0
RECURSIVE Defined(_)
Defined(t) ==
    /\ \A i \in 1..Len(t[3]) : Defined(t[3][i])
    /\ (t[1] = "bin" /\ t[2] = "/") => RefValue(t[3][2]) # 0

BinaryPrecedence(op) == IF op \in {"*", "/"} THEN 2 ELSE 1

\* the tree is the one the usual reading gives its flat spelling: unary
\* operators bind tightest, then * and /, then + and -, to the left
RECURSIVE Canonical(_)
Canonical(t) ==
    /\ \A i \in 1..Len(t[3]) : Canonical(t[3][i])
    /\ t[1] = "un" => t[3][1][1] # "bin"
    /\ t[1] = "bin" =>
        /\ t[3][1][1] = "bin" => BinaryPrecedence(t[3][1][2]) >= BinaryPrecedence(t[2])
        /\ t[3][2][1] = "bin" => BinaryPrecedence(t[3][2][2]) > BinaryPrecedence(t[2])

\* the operator tokens as the source's token lists construct them
BinaryOperator(op) == OperatorToken(Str(op), BinaryPrecedence(op), TRUE, FALSE)

UnaryOperator(op) ==
    IF op = "!" THEN OperatorToken(Str("!"), 2, TRUE, TRUE)
    ELSE OperatorToken(Str(op), 1, FALSE, FALSE)

\* the token list of an expression, parentheses only where the tree has them
RECURSIVE Flat(_)
Flat(t) ==
    IF t[1] = "num" THEN <<NumberToken(Literal(t[4]))>>
    ELSE IF t[1] = "par"
    THEN <<SymbolToken(Str("("))>> \o Flat(t[3][1]) \o <<SymbolToken(Str(")"))>>
    ELSE IF t[1] = "un" THEN <<UnaryOperator(t[2])>> \o Flat(t[3][1])
    ELSE Flat(t[3][1]) \o <<BinaryOperator(t[2])>> \o Flat(t[3][2])

\* the token list with every application in its own pair of parentheses
RECURSIVE Full(_)
Full(t) ==
    IF t[1] = "num" THEN <<NumberToken(Literal(t[4]))>>
    ELSE IF t[1] = "un"
    THEN <<SymbolToken(Str("(")), UnaryOperator(t[2])>> \o Full(t[3][1])
         \o <<SymbolToken(Str(")"))>>
    ELSE <<SymbolToken(Str("("))>> \o Full(t[3][1]) \o <<BinaryOperator(t[2])>>
         \o Full(t[3][2]) \o <<SymbolToken(Str(")"))>>

InitInfix ==
    \E t \in {e \in Exprs(TRUE) : Canonical(e) /\ Defined(e)} : Start(Flat(t), t)

SpecInfix == InitInfix /\ [][Next]_vars

InitParen ==
    \E t \in {e \in Exprs(FALSE) : Defined(e)} : Start(Full(t), t)

SpecParen == InitParen /\ [][Next]_vars

(***************************************************************************)
(* Properties.                                                             *)
(***************************************************************************)
Finished == pc \in {"done", "crashed"}

\* every operator of the sequence follows all of its operands, and the
\* sequence denotes one value
PostfixOrder(stack) == WellFormedPostfix([i \in 1..Len(stack) |-> tokens[stack[i]]])

\* C1: for every well-formed infix token list (numbers, binary + - * /,
\* prefix unary + - !, balanced parentheses, operators constructed as in
\* the sample lists), shuntingYardAlgorithm returns a postfix sequence in
\* which every operator follows its operands, and evaluateExpressionTokens
\* returns the value of the expression.
C1_InfixValue ==
    Finished =>
        /\ pc = "done"
        /\ PostfixOrder(outputStack)
        /\ result = RefValue(expr)

\* C2: for every fully parenthesized expression, shuntingYardAlgorithm
\* followed by evaluateExpressionTokens returns the value the explicit
\* parenthesization gives.
C2_ParenthesizedValue ==
    Finished => (pc = "done" /\ result = RefValue(expr))

\* no '(' is on the operator stack
NoOpenParen ==
    \A i \in 1..Len(operatorStack) : tokens[operatorStack[i]].d_value # Str("(")

\* C3: a token list in which a ')' is read while no unmatched '(' is on the
\* operator stack is rejected with the mismatched-parenthesis error, and
\* the reorder-then-evaluate pipeline produces no numeric result for it
\* (stated for the runs that execute no undefined behaviour, whose result
\* is the program's own).
C3_MismatchRejected ==
    /\ [][(pc = "rparen" /\ pc' # "rparen" /\ NoOpenParen) => mismatch']_vars
    /\ [](mismatch => ~(pc = "done" /\ ~ub))

\* C4: for all a, b, c, d the token list a + b * ( c - d ) of sample 1 is
\* reordered to a b c d - * + and evaluates to a + b * (c - d): the
\* multiplication is applied before the addition, the parenthesized
\* subtraction is one operand.
C4_Sample1Value ==
    (expr[1] = "sample1" /\ Finished) =>
        LET a == expr[2][1]
            b == expr[2][2]
            c == expr[2][3]
            d == expr[2][4]
        IN  /\ pc = "done"
            /\ outputStack = <<1, 3, 6, 8, 7, 4, 2>>
            /\ result = a + b * (c - d)

C4_Witness ==
    /\ expr = <<"sample1", <<4, 2, 3, 1>>>>
    /\ pc = "done"
    /\ result = 8

\* C5: for all a, b the token list a - ! b of sample 2 leaves '-' tagged
\* binary, applies '!' to b first and evaluates to a - (1 if b = 0 else 0).
C5_Sample2Value ==
    (expr[1] = "sample2" /\ Finished) =>
        LET a == expr[2][1]
            b == expr[2][2]
        IN  /\ pc = "done"
            /\ ~tokens[2].d_unary
            /\ tokens[3].d_unary
            /\ outputStack = <<1, 4, 3, 2>>
            /\ result = a - (IF b = 0 THEN 1 ELSE 0)

C5_Witness ==
    /\ expr = <<"sample2", <<4, 1>>>>
    /\ pc = "done"
    /\ ~tokens[2].d_unary
    /\ result = 4

\* C6: for all a, b, c, d the live token list - a + b * ( - c - d ) gets
\* its leading '-' and the '-' after '(' tagged unary, the other '-' left
\* binary, and evaluates to (-a) + b * ((-c) - d).
C6_Sample3Value ==
    (expr[1] = "sample3" /\ Finished) =>
        LET a == expr[2][1]
            b == expr[2][2]
            c == expr[2][3]
            d == expr[2][4]
        IN  /\ pc = "done"
            /\ tokens[1].d_unary
            /\ tokens[7].d_unary
            /\ ~tokens[9].d_unary
            /\ ~tokens[3].d_unary
            /\ result = (-a) + b * ((-c) - d)

C6_Witness ==
    /\ expr = <<"sample3", <<6, 2, 3, 1>>>>
    /\ pc = "done"
    /\ tokens[1].d_unary /\ tokens[7].d_unary /\ ~tokens[9].d_unary
    /\ result = -14

\* the operator of the activation on top of the call stack has all its
\* operands and none of the texts the evaluator knows for its arity
UnknownOperatorReturns ==
    /\ pc = "return"
    /\ callStack # <<>>
    /\ LET frame == Top(callStack)
           t == tokens[frame.token]
       IN  \/ t.d_unary /\ t.d_value \notin {Str("!"), Str("+"), Str("-")}
           \/ /\ ~t.d_unary
              /\ frame.have = 1
              /\ t.d_value \notin {Str("+"), Str("-"), Str("*"), Str("/")}

\* the activation that starts pops a Symbol token
SymbolPopped ==
    /\ pc = "call"
    /\ expressionStack # <<>>
    /\ tokens[Top(expressionStack)].type = "Symbol"

\* C7: an activation of evaluateExpressionTokens whose token is a Symbol, a
\* unary operator with a text other than ! + -, or a binary operator with a
\* text other than + - * /, returns 0 and prints the diagnostic, whatever
\* the values of the operands it consumed.
C7_SentinelZero ==
    [][(SymbolPopped \/ UnknownOperatorReturns) =>
           (pc' = "return" /\ retval' = 0 /\ evalError')]_vars

\* 2 1 ^ was evaluated: both operands consumed, then the sentinel
C7_Witness ==
    /\ Len(tokens) = 3
    /\ tokens[3] = OperatorToken(Str("^"), 3, FALSE, FALSE)
    /\ getIntValue(tokens[1]) = 2 /\ getIntValue(tokens[2]) = 1
    /\ tokens[1].type = "Number" /\ tokens[2].type = "Number"
    /\ pc = "done"
    /\ expressionStack = <<>>
    /\ evalError
    /\ result = 0

\* the stack the evaluator was called on is a well-formed postfix sequence
WellFormedCall == WellFormedPostfix(tokens)

\* C8 as claimed: for every well-formed postfix stack,
\* evaluateExpressionTokens ends by returning one value, the stack empty.
C8_WellFormedReturns ==
    (WellFormedCall /\ Finished) =>
        (pc = "done" /\ expressionStack = <<>> /\ callStack = <<>>)

\* C8, amended: for every well-formed postfix stack, evaluation never pops
\* an empty stack and, unless a '/' meets a divisor of value 0, it
\* terminates, having returned one value and left the stack empty.
C8_WellFormedReturnsUnlessDivZero ==
    /\ [](WellFormedCall => ~(pc = "call" /\ expressionStack = <<>>))
    /\ []((WellFormedCall /\ Finished /\ ~ub) =>
             (pc = "done" /\ expressionStack = <<>> /\ callStack = <<>>))
    /\ (WellFormedCall ~> (ub \/ pc = "done"))

\* a well-formed stack of five tokens, a division applied to the value of
\* another binary operator, was evaluated
C8_Witness ==
    /\ WellFormedCall
    /\ Len(tokens) = 5
    /\ tokens[5] = OperatorToken(Str("/"), 2, TRUE, FALSE)
    /\ tokens[3] = OperatorToken(Str("-"), 1, TRUE, FALSE)
    /\ ~ub
    /\ pc = "done"
    /\ expressionStack = <<>>

\* C9: in the pop-before-push loop, with incoming operator O2 and an
\* operator O1 (not '(') on top of the operator stack, O1 is moved to the
\* output, O2 not yet pushed, if and only if prec(O1) > prec(O2), or
\* prec(O1) = prec(O2) and O2 is left-associative; otherwise, and when the
\* top is '(' or the stack is empty, O2 is pushed and nothing is popped.
C9_PopRule ==
    [][pc = "oploop" =>
        IF operatorStack # <<>> /\ tokens[Top(operatorStack)].d_value # Str("(")
        THEN LET O1 == tokens[Top(operatorStack)]
                 O2 == tokens[token]
                 rule == \/ O1.d_precedence > O2.d_precedence
                         \/ /\ O1.d_precedence = O2.d_precedence
                            /\ O2.d_leftAssociative
                 popped == /\ outputStack' = Append(outputStack, Top(operatorStack))
                           /\ operatorStack' = SubSeq(operatorStack, 1, Len(operatorStack) - 1)
                           /\ pc' = "oploop"
                 pushed == /\ outputStack' = outputStack
                           /\ operatorStack' = Append(operatorStack, token)
             IN  /\ O1.type = "Operator"
                 /\ rule <=> popped
                 /\ ~rule <=> pushed
        ELSE /\ outputStack' = outputStack
             /\ operatorStack' = Append(operatorStack, token)]_vars

\* ( * / was read: '/' has popped the equal-precedence '*' and stopped at
\* the '('
C9_Witness ==
    /\ Len(tokens) = 3
    /\ tokens[1] = SymbolToken(Str("("))
    /\ tokens[2] = OperatorToken(Str("*"), 2, TRUE, FALSE)
    /\ tokens[3] = OperatorToken(Str("/"), 2, TRUE, FALSE)
    /\ pc = "loop"
    /\ outputStack = <<2>>
    /\ operatorStack = <<1, 3>>

\* C10: when an Operator token with text + or - is consumed, its unary is
\* set to true and its leftAssociative to false exactly when it is the
\* first token or the token consumed before it is an Operator or a Symbol
\* (a ')' included); after a Number the token is left as constructed. Each
\* occurrence is decided on its own.
C10_UnaryTagging ==
    [][(/\ pc = "loop"
        /\ inputQueue # <<>>
        /\ tokens[Head(inputQueue)].type = "Operator"
        /\ tokens[Head(inputQueue)].d_value \in {Str("+"), Str("-")}) =>
        LET t == Head(inputQueue) IN
        IF t = 1 \/ tokens[t - 1].type \in {"Operator", "Symbol"}
        THEN tokens' = [tokens EXCEPT ![t] =
                           [type |-> "Operator", d_value |-> tokens[t].d_value,
                            d_precedence |-> tokens[t].d_precedence,
                            d_leftAssociative |-> FALSE, d_unary |-> TRUE]]
        ELSE tokens' = tokens]_vars

\* ( ) + was read: the '+', constructed binary and left-associative,
\* follows the ')' and is tagged
C10_Witness ==
    /\ Len(tokens) = 3
    /\ tokens[1] = SymbolToken(Str("("))
    /\ tokens[2] = SymbolToken(Str(")"))
    /\ tokens[3] = OperatorToken(Str("+"), 1, FALSE, TRUE)
    /\ previousToken = 2
    /\ pc = "oploop"

\* the reference postfix evaluator: the values a left-to-right scan of the
\* first i tokens leaves (last = newest), and whether every division so far
\* had a divisor other than 0. A binary operator takes the newest value as
\* its right operand and the one below as its left operand.
RECURSIVE RefPostfix(_, _)
RefPostfix(list, i) ==
    IF i = 0 THEN [ok |-> TRUE, vals |-> <<>>]
    ELSE LET before == RefPostfix(list, i - 1)
             v == before.vals
             n == Len(v)
             t == list[i]
             text == t.d_value[1]
         IN
         IF ~before.ok THEN before
         ELSE IF t.type = "Number"
         THEN [ok |-> TRUE, vals |-> Append(v, Atoll(t.d_value))]
         ELSE IF t.d_unary
         THEN LET x == v[n]
                  y == IF text = "!" THEN (IF x = 0 THEN 1 ELSE 0)
                       ELSE IF text = "+" THEN x
                       ELSE 0 - x
              IN  [ok |-> TRUE, vals |-> Append(SubSeq(v, 1, n - 1), y)]
         ELSE LET a == v[n - 1]
                  b == v[n]
                  quotient == IF b = 0 THEN 0
                              ELSE CHOOSE q \in -(a * a)..(a * a) :
                                     \E r \in 0..((IF b < 0 THEN -b ELSE b) - 1) :
                                        a = q * b + (IF a < 0 THEN -r ELSE r)
                  y == IF text = "+" THEN a + b
                       ELSE IF text = "-" THEN a - b
                       ELSE IF text = "*" THEN a * b
                       ELSE quotient
              IN  [ok |-> ~(text = "/" /\ b = 0),
                   vals |-> Append(SubSeq(v, 1, n - 2), y)]

\* C11 as stated: on every well-formed postfix stack of the operators it
\* knows, evaluateExpressionTokens returns, and returns what the reference
\* postfix evaluator leaves.
C11_ReferenceValue ==
    LET ref == RefPostfix(tokens, Len(tokens)) IN
    /\ ~ub
    /\ pc # "crashed"
    /\ pc = "done" => (result = ref.vals[1] /\ ~evalError)

\* C11: on a well-formed postfix stack of the operators it knows, whose
\* divisions all have a divisor other than 0, evaluateExpressionTokens
\* returns what the reference postfix evaluator leaves: a b - is a - b,
\* a b / is a / b truncated, ! is 1 for 0 and 0 otherwise, unary + is the
\* operand, unary - its negation.
C11_ReferenceValueUnlessDivZero ==
    LET ref == RefPostfix(tokens, Len(tokens)) IN
    ref.ok =>
        /\ ~ub
        /\ pc # "crashed"
        /\ pc = "done" => (result = ref.vals[1] /\ ~evalError)

\* 1 - 2 / was evaluated: (-1) / 2 truncates to 0
C11_Witness ==
    /\ Len(tokens) = 4
    /\ tokens[1] = NumberToken(Str("1"))
    /\ tokens[2] = OperatorToken(Str("-"), 1, FALSE, TRUE)
    /\ tokens[3] = NumberToken(Str("2"))
    /\ tokens[4] = OperatorToken(Str("/"), 2, TRUE, FALSE)
    /\ pc = "done"
    /\ result = 0

(***************************************************************************)
(* Parentheses of the input, read off the token texts                      *)
(***************************************************************************)
IsOpenParen(i) == tokens[i].type = "Symbol" /\ tokens[i].d_value = Str("(")

IsCloseParen(i) == tokens[i].type = "Symbol" /\ tokens[i].d_value = Str(")")

\* the number of '(' less the number of ')' among the tokens i..j
RECURSIVE Balance(_, _)
Balance(i, j) ==
    IF j < i THEN 0
    ELSE Balance(i, j - 1) + (IF IsOpenParen(j) THEN 1
                              ELSE IF IsCloseParen(j) THEN -1 ELSE 0)

\* the '(' at i is never closed by a later ')'
Unclosed(i) ==
    /\ IsOpenParen(i)
    /\ \A j \in (i + 1)..Len(tokens) : Balance(i, j) > 0

\* every ')' of the input has a '(' of its own before it
NoStrayCloseParen == \A k \in 1..Len(tokens) : Balance(1, k) >= 0

\* the tokens a stack holds
Held(stack) == {stack[k] : k \in 1..Len(stack)}

\* what a '(' never closed is said to bring about
UnclosedPassed(i) ==
    /\ ~mismatch
    /\ pc = "main" => (inputQueue = <<>> /\ i \in Held(outputStack))

\* C12 as stated: with a '(' never closed by a later ')' in the input,
\* no mismatch is reported, the whole input is consumed and the returned
\* output stack holds that '('.
C12_UnclosedParenPassed ==
    \A i \in 1..Len(tokens) : Unclosed(i) => UnclosedPassed(i)

\* C12: with a '(' never closed by a later ')' in an input whose every ')'
\* has a '(' of its own before it, no mismatch is reported, the whole input
\* is consumed and the returned output stack holds that '('.
C12_UnclosedParenPassedUnlessStray ==
    \A i \in 1..Len(tokens) :
        (Unclosed(i) /\ NoStrayCloseParen) => UnclosedPassed(i)

\* ( 0 - has returned 0 - ( with the '(' on top
C12_Witness ==
    /\ Len(tokens) = 3
    /\ Unclosed(1)
    /\ tokens[2].type = "Number"
    /\ tokens[3].type = "Operator"
    /\ pc = "main"
    /\ outputStack = <<2, 3, 1>>
    /\ ~mismatch

\* the ')' at k is the first of the input with no '(' of its own before it
FirstStrayAt(k) ==
    /\ Balance(1, k) < 0
    /\ \A j \in 1..(k - 1) : Balance(1, j) >= 0

\* the tokens that follow token k, in input order
Following(k) == [j \in 1..(Len(tokens) - k) |-> k + j]

RECURSIVE Reverse(_)
Reverse(stack) ==
    IF stack = <<>> THEN <<>> ELSE Append(Reverse(Tail(stack)), Head(stack))

\* the tokens committed to the two stacks, in the order the final drain
\* leaves them on the output stack
Committed == outputStack \o Reverse(operatorStack)

\* C13: once a mismatched ')' is detected the run stops: the tokens that
\* follow the offending ')' are all still in the input queue and stay there,
\* none of them is on the output stack, and the stack that is returned holds
\* exactly what was on the output and operator stacks at the detection.
C13_StopsAtMismatch ==
    /\ [](mismatch =>
            \E k \in 1..Len(tokens) :
                /\ FirstStrayAt(k)
                /\ inputQueue = Following(k)
                /\ Held(outputStack) \cap Held(Following(k)) = {}
                /\ Held(Committed) \subseteq 1..(k - 1))
    /\ [][mismatch' => (inputQueue' = inputQueue /\ Committed' = Committed)]_vars
    /\ []((mismatch /\ pc = "main") => outputStack = Committed)

\* 1 ) 0 has returned the stack 1 with 0 left in the queue
C13_Witness ==
    /\ Len(tokens) = 3
    /\ tokens[1].type = "Number"
    /\ IsCloseParen(2)
    /\ tokens[3].type = "Number"
    /\ mismatch
    /\ pc = "main"
    /\ inputQueue = <<3>>
    /\ outputStack = <<1>>

\* the steps of shuntingYardAlgorithm and those of evaluateExpressionTokens
InReorder == pc \in {"loop", "oploop", "rparen", "drain"}

InEvaluate == pc \in {"call", "return"}

\* C14: no step changes a token's kind, text or precedence; a step of
\* shuntingYardAlgorithm changes a token only if it is a + or - operator,
\* and then only by setting unary to true and leftAssociative to false; a
\* step of evaluateExpressionTokens changes no token.
C14_OnlyUnaryTagging ==
    [][/\ DOMAIN tokens' = DOMAIN tokens
       /\ \A i \in DOMAIN tokens :
             /\ tokens'[i].type = tokens[i].type
             /\ tokens'[i].d_value = tokens[i].d_value
             /\ tokens'[i].d_precedence = tokens[i].d_precedence
             /\ tokens'[i] # tokens[i] =>
                   /\ InReorder
                   /\ tokens[i].type = "Operator"
                   /\ tokens[i].d_value \in {Str("+"), Str("-")}
                   /\ tokens'[i] = [tokens[i] EXCEPT !.d_unary = TRUE,
                                                     !.d_leftAssociative = FALSE]
       /\ InEvaluate => tokens' = tokens]_vars

\* * + 1 was reordered and evaluated: the + is tagged, the * is as built
C14_Witness ==
    /\ Len(tokens) = 3
    /\ tokens[1] = OperatorToken(Str("*"), 2, TRUE, FALSE)
    /\ tokens[2] = OperatorToken(Str("+"), 1, FALSE, TRUE)
    /\ tokens[3].type = "Number"
    /\ pc = "done"

(***************************************************************************)
(* shuntingYardAlgorithm called twice: a first run, then a second run over *)
(* a fresh queue of the same token objects, or over the token sequence as  *)
(* it was built but for the tags of one + or - operator.  expr records     *)
(* <<"first", the sequence as built>> during the first run and afterwards  *)
(* <<which second run, the tokens and the output stack the first run left, *)
(* the position of the operator built otherwise (0 when none)>>.           *)
(***************************************************************************)
TwiceTokens ==
    {NumberToken(Str("1")), SymbolToken(Str("(")), SymbolToken(Str(")")),
     OperatorToken(Str("+"), 1, TRUE, FALSE),
     OperatorToken(Str("-"), 1, TRUE, FALSE),
     OperatorToken(Str("-"), 1, FALSE, TRUE),
     OperatorToken(Str("*"), 2, TRUE, FALSE)}

InitTwice ==
    \E list \in TokenLists(TwiceTokens, MaxLen) : Start(list, <<"first", list>>)

\* lines 144-148: the entry of a call on a fresh queue of the given tokens
Enter(list) ==
    /\ tokens' = list
    /\ inputQueue' = Indices(list)
    /\ outputStack' = <<>>
    /\ operatorStack' = <<>>
    /\ previousToken' = Null
    /\ token' = Null
    /\ mismatch' = FALSE
    /\ pc' = "loop"
    /\ UNCHANGED <<expressionStack, callStack, retval, evalError, result, ub>>

\* the second call, over the token objects the first run has tagged
CallAgain ==
    /\ pc = "main"
    /\ expr[1] = "first"
    /\ Enter(tokens)
    /\ expr' = <<"again", tokens, outputStack, 0>>

\* the second call, over the sequence as built but for the unary and
\* leftAssociative values of the + or - operator at position i
CallVariant ==
    /\ pc = "main"
    /\ expr[1] = "first"
    /\ \E i \in 1..Len(tokens), u \in BOOLEAN, l \in BOOLEAN :
          LET built == expr[2] IN
          /\ built[i].type = "Operator"
          /\ built[i].d_value \in {Str("+"), Str("-")}
          /\ <<u, l>> # <<built[i].d_unary, built[i].d_leftAssociative>>
          /\ Enter([built EXCEPT ![i] = [@ EXCEPT !.d_unary = u,
                                                  !.d_leftAssociative = l]])
          /\ expr' = <<"variant", tokens, outputStack, i>>

NextTwice ==
    \/ ReadToken
    \/ OperatorLoop
    \/ RightParenLoop
    \/ Drain
    \/ CallAgain
    \/ CallVariant

SpecTwice == InitTwice /\ [][NextTwice]_vars

\* C15: a second run over the token objects the first run has tagged changes
\* no unary or leftAssociative value and returns the output order of the
\* first run.
C15_SecondRunSame ==
    expr[1] = "again" =>
        /\ tokens = expr[2]
        /\ pc = "main" => outputStack = expr[3]

\* + 1 - was run twice: the + tagged by the first run, the output 1 + - both
\* times
C15_Witness ==
    /\ expr[1] = "again"
    /\ pc = "main"
    /\ Len(tokens) = 3
    /\ tokens[1] = OperatorToken(Str("+"), 1, FALSE, TRUE)
    /\ tokens[2].type = "Number"
    /\ tokens[3] = OperatorToken(Str("-"), 1, TRUE, FALSE)
    /\ outputStack = <<2, 1, 3>>

\* the + or - operator at position i was consumed by the run as its first
\* token or right after an Operator or Symbol token
ConsumedInUnaryPlace(i) ==
    /\ i \notin Held(inputQueue)
    /\ i = 1 \/ tokens[i - 1].type \in {"Operator", "Symbol"}

\* the run that started from the sequence built otherwise at expr[4] has
\* ended with the tags of the first run on that operator and with the output
\* order of the first run
VariantRunSame ==
    LET i == expr[4] IN
    /\ tokens[i].d_unary = expr[2][i].d_unary
    /\ tokens[i].d_leftAssociative = expr[2][i].d_leftAssociative
    /\ outputStack = expr[3]

\* C16 as stated: two runs over one token sequence that differ only in the
\* unary and leftAssociative values a + or - operator was built with end
\* with the same tags on that operator and the same output order.
C16_TagsFromContextOnly ==
    (expr[1] = "variant" /\ pc = "main") => VariantRunSame

\* C16: two runs over one token sequence that differ only in the unary and
\* leftAssociative values of a + or - operator which the runs consume as the
\* first token or right after an Operator or Symbol token end with the same
\* tags on that operator and the same output order.
C16_TagsFromContextWhenTagged ==
    (expr[1] = "variant" /\ pc = "main" /\ ConsumedInUnaryPlace(expr[4]))
        => VariantRunSame

\* ( - 1 was run with the - built binary and left-associative, then with the
\* - built otherwise: both runs end with the - unary and right-associative
C16_Witness ==
    /\ expr[1] = "variant"
    /\ expr[4] = 2
    /\ pc = "main"
    /\ Len(tokens) = 3
    /\ IsOpenParen(1)
    /\ tokens[2] = OperatorToken(Str("-"), 1, FALSE, TRUE)
    /\ tokens[3].type = "Number"
    /\ outputStack = <<3, 2, 1>>

\* C17: every element of the operator stack is an Operator token or a token
\* whose text is '(' ; so the stack top that the pop-before-push loop reads
\* as an operator (one whose text is not '(' ) is an Operator token, as is
\* the current token of that loop.
C17_OperatorStackKinds ==
    /\ \A k \in 1..Len(operatorStack) :
          \/ tokens[operatorStack[k]].type = "Operator"
          \/ tokens[operatorStack[k]].d_value = Str("(")
    /\ (pc = "oploop" /\ operatorStack # <<>>
           /\ tokens[Top(operatorStack)].d_value # Str("("))
          => tokens[Top(operatorStack)].type = "Operator"
    /\ pc = "oploop" => tokens[token].type = "Operator"

\* ( * + at the pop-before-push loop of the + : the stack holds ( * and the
\* loop reads the * as its top
C17_Witness ==
    /\ pc = "oploop"
    /\ token = 3
    /\ operatorStack = <<1, 2>>
    /\ IsOpenParen(1)
    /\ tokens[2] = OperatorToken(Str("*"), 2, TRUE, FALSE)
    /\ tokens[3].d_value = Str("+")

\* no token occurs twice in the sequence
NoDuplicates(seq) == Cardinality(Held(seq)) = Len(seq)

\* every ')' of the input closes a '(' and every '(' is closed
BalancedParens ==
    /\ NoStrayCloseParen
    /\ Balance(1, Len(tokens)) = 0

\* C18: every token is held by at most one of the input queue, the operator
\* stack and the output stack, and at most once; when a run over an input
\* with balanced parentheses returns, the output stack holds each Number and
\* each Operator of the input exactly once and no Symbol.
C18_TokensHeldOnce ==
    /\ NoDuplicates(inputQueue \o operatorStack \o outputStack)
    /\ (pc = "main" /\ BalancedParens) =>
          /\ Held(outputStack) =
                {i \in 1..Len(tokens) : tokens[i].type \in {"Number", "Operator"}}
          /\ NoDuplicates(outputStack)

\* ( 0 ) has returned the stack 0
C18_Witness ==
    /\ Len(tokens) = 3
    /\ IsOpenParen(1)
    /\ tokens[2].type = "Number"
    /\ IsCloseParen(3)
    /\ pc = "main"
    /\ outputStack = <<2>>
    /\ inputQueue = <<>>

(***************************************************************************)
(* shuntingYardAlgorithm alone, up to its return; the function runs on,    *)
(* step after step, until it returns.                                      *)
(***************************************************************************)
NextReorder ==
    \/ ReadToken
    \/ OperatorLoop
    \/ RightParenLoop
    \/ Drain

SpecReorder == Init /\ [][NextReorder]_vars /\ WF_vars(NextReorder)

\* C19: shuntingYardAlgorithm returns on every input; at its return the
\* operator stack is empty, and the input queue is empty too unless a
\* mismatched parenthesis was reported.
C19_Terminates ==
    /\ [](pc = "main" => operatorStack = <<>>)
    /\ []((pc = "main" /\ ~mismatch) => inputQueue = <<>>)
    /\ <>(pc = "main")

\* - ( 1 has returned 1 ( - with both the queue and the operator stack empty
C19_Witness ==
    /\ Len(tokens) = 3
    /\ tokens[1].d_value = Str("-")
    /\ IsOpenParen(2)
    /\ tokens[3].type = "Number"
    /\ pc = "main"
    /\ ~mismatch
    /\ inputQueue = <<>>
    /\ operatorStack = <<>>
    /\ outputStack = <<3, 2, 1>>

\* the Number tokens of a sequence of tokens, in its order
NumbersOf(seq) == SelectSeq(seq, LAMBDA i : tokens[i].type = "Number")

\* the tokens consumed so far, in input order
Consumed == [i \in 1..(Len(tokens) - Len(inputQueue)) |-> i]

\* C20: the Number tokens on the output stack, bottom to top, are the Number
\* tokens consumed so far, in input order.
C20_OperandOrder ==
    InReorder \/ pc = "main" => NumbersOf(outputStack) = NumbersOf(Consumed)

\* 0 * 1 has been reordered to 0 1 * : the operands are in input order
C20_Witness ==
    /\ Len(tokens) = 3
    /\ tokens[1] = NumberToken(Str("0"))
    /\ tokens[2].type = "Operator"
    /\ tokens[3] = NumberToken(Str("1"))
    /\ pc = "main"
    /\ outputStack = <<1, 3, 2>>

====
